---- MODULE Spec2Model ----
(***************************************************************************)
(* Resequencer of adridev/lunar-test: the message log, the rocket          *)
(* projections, the per-channel mutexes and the concurrent Ingest calls    *)
(* of internal/rockets/service.go over the repositories of                 *)
(* internal/rockets/repository.go.                                         *)
(***************************************************************************)
EXTENDS Integers, Sequences, FiniteSets, TLC

(***************************************************************************)
(* Bounds of the model.                                                    *)
(***************************************************************************)
\* number of Ingest calls made one after the other (one caller each)
MaxCalls == 3
\* number of Ingest calls made concurrently
MaxConcurrent == 2
\* largest message number a producer sends; numbers range over 0..MaxNum
MaxNum == 3
\* number of storage calls that may fail
MaxFaults == 1

Procs == 1..(MaxCalls + 2)
Nums == 0..MaxNum

\* the channels (uuid.UUID values) and their text form
Channels == {1, 2}
UUIDText == <<"0a", "0b", "0c", "0d">>
UUIDString(u) == UUIDText[u]
UUIDParse(s) == CHOOSE u \in DOMAIN UUIDText : UUIDText[u] = s

(***************************************************************************)
(* Data model (model.go).  A Go pointer is a sequence: <<>> is nil and     *)
(* <<v>> points to v.  A JSON number (float64) is kept in units of         *)
(* 1/Scale, so that int(x) truncates.                                      *)
(***************************************************************************)
Scale == 2

Num(x) == [t |-> "num", n |-> x, s |-> ""]
Str(x) == [t |-> "str", n |-> 0, s |-> x]

\* message kinds with their payloads (map[string]interface{}: a function
\* from the keys present), as producers send them
Launched ==
  [ kind |-> "RocketLaunched",
    payload |-> [type |-> Str("Falcon-9"), launchSpeed |-> Num(500 * Scale),
                 mission |-> Str("ARTEMIS")] ]
\* the launch of the rocket of another channel
OtherLaunched ==
  [ kind |-> "RocketLaunched",
    payload |-> [type |-> Str("Saturn-V"), launchSpeed |-> Num(500 * Scale),
                 mission |-> Str("APOLLO")] ]
SpeedIncreased == [kind |-> "RocketSpeedIncreased", payload |-> [by |-> Num(3000 * Scale)]]
SpeedDecreased == [kind |-> "RocketSpeedDecreased", payload |-> [by |-> Num(500 * Scale)]]
Exploded ==
  [kind |-> "RocketExploded", payload |-> [reason |-> Str("PRESSURE_VESSEL_FAILURE")]]
MissionChanged ==
  [kind |-> "RocketMissionChanged", payload |-> [newMission |-> Str("SHUTTLE")]]
\* payloads with a field missing or of the wrong type
BadLaunched ==
  [ kind |-> "RocketLaunched",
    payload |-> [type |-> Num(Scale), launchSpeed |-> Str("fast")] ]
BadExploded == [kind |-> "RocketExploded", payload |-> [reason |-> Num(Scale)]]
NoReasonExploded == [kind |-> "RocketExploded", payload |-> [cause |-> Str("FIRE")]]
BadMissionChanged == [kind |-> "RocketMissionChanged", payload |-> [newMission |-> Num(Scale)]]
NoMissionChanged == [kind |-> "RocketMissionChanged", payload |-> [mission |-> Str("SHUTTLE")]]
NoBySpeedDecreased == [kind |-> "RocketSpeedDecreased", payload |-> [amount |-> Num(Scale)]]
\* rejected by applyMessage: a payload of the wrong type, an unknown kind
BadSpeedIncreased == [kind |-> "RocketSpeedIncreased", payload |-> [by |-> Str("fast")]]
Landed == [kind |-> "RocketLanded", payload |-> [by |-> Num(Scale)]]

Metadata(c, n, t, k) ==
  [Channel |-> c, MessageNumber |-> n, MessageTime |-> t, MessageType |-> k]

Message(c, n, t, k, p) == [Metadata |-> Metadata(c, n, t, k), Message |-> p]

Rocket(c) ==
  [ Channel |-> c, Type |-> "", Speed |-> 0, Mission |-> "", Status |-> "",
    ExplosionReason |-> <<>>, LastMessageNumber |-> <<>>, LastMessageTime |-> <<>> ]

\* Go's int(x) of a float64: truncation toward zero
FloatToInt(x) == IF x >= 0 THEN x \div Scale ELSE -((-x) \div Scale)

\* v, ok := m[key].(string) and v, ok := m[key].(float64)
IsString(p, key) == key \in DOMAIN p /\ p[key].t = "str"
IsFloat(p, key) == key \in DOMAIN p /\ p[key].t = "num"
StringOf(p, key) == IF IsString(p, key) THEN p[key].s ELSE ""
FloatOf(p, key) == IF IsFloat(p, key) THEN p[key].n ELSE 0

NoError == ""
ProcessMessageError == "ProcessMessageError"
StoreMessageError == "StoreMessageError"

\* applyMessage as it would be if RocketExploded also brought the speed to 0
applyMessageExplodedStops(rocket, msg) ==
  LET r == [rocket EXCEPT !.LastMessageNumber = <<msg.Metadata.MessageNumber>>,
                          !.LastMessageTime = <<msg.Metadata.MessageTime>>]
      p == msg.Message
      k == msg.Metadata.MessageType
  IN CASE k = "RocketLaunched" ->
            [ rocket |-> [r EXCEPT !.Type = StringOf(p, "type"),
                                   !.Speed = FloatToInt(FloatOf(p, "launchSpeed")),
                                   !.Mission = StringOf(p, "mission"),
                                   !.Status = "active"],
              err |-> NoError ]
       [] k = "RocketSpeedIncreased" ->
            IF ~IsFloat(p, "by")
              THEN [rocket |-> r, err |-> "invalid RocketSpeedIncreased message"]
              ELSE [ rocket |-> [r EXCEPT !.Speed = @ + FloatToInt(FloatOf(p, "by"))],
                     err |-> NoError ]
       [] k = "RocketSpeedDecreased" ->
            IF ~IsFloat(p, "by")
              THEN [rocket |-> r, err |-> "invalid RocketSpeedDecreased message"]
              ELSE [ rocket |-> [r EXCEPT !.Speed = @ - FloatToInt(FloatOf(p, "by"))],
                     err |-> NoError ]
       [] k = "RocketExploded" ->
            [ rocket |-> [r EXCEPT !.ExplosionReason = <<StringOf(p, "reason")>>,
                                   !.Status = "exploded", !.Speed = 0],
              err |-> NoError ]
       [] k = "RocketMissionChanged" ->
            IF ~IsString(p, "newMission")
              THEN [rocket |-> r, err |-> "invalid RocketMissionChanged message"]
              ELSE [ rocket |-> [r EXCEPT !.Mission = StringOf(p, "newMission")],
                     err |-> NoError ]
       [] OTHER -> [rocket |-> r, err |-> "unknown message type"]

\* applyMessage as it would be if RocketExploded required its reason
applyMessageExplodedChecks(rocket, msg) ==
  LET r == [rocket EXCEPT !.LastMessageNumber = <<msg.Metadata.MessageNumber>>,
                          !.LastMessageTime = <<msg.Metadata.MessageTime>>]
      p == msg.Message
      k == msg.Metadata.MessageType
  IN CASE k = "RocketLaunched" ->
            [ rocket |-> [r EXCEPT !.Type = StringOf(p, "type"),
                                   !.Speed = FloatToInt(FloatOf(p, "launchSpeed")),
                                   !.Mission = StringOf(p, "mission"),
                                   !.Status = "active"],
              err |-> NoError ]
       [] k = "RocketSpeedIncreased" ->
            IF ~IsFloat(p, "by")
              THEN [rocket |-> r, err |-> "invalid RocketSpeedIncreased message"]
              ELSE [ rocket |-> [r EXCEPT !.Speed = @ + FloatToInt(FloatOf(p, "by"))],
                     err |-> NoError ]
       [] k = "RocketSpeedDecreased" ->
            IF ~IsFloat(p, "by")
              THEN [rocket |-> r, err |-> "invalid RocketSpeedDecreased message"]
              ELSE [ rocket |-> [r EXCEPT !.Speed = @ - FloatToInt(FloatOf(p, "by"))],
                     err |-> NoError ]
       [] k = "RocketExploded" ->
            IF ~IsString(p, "reason")
              THEN [rocket |-> r, err |-> "invalid RocketExploded message"]
              ELSE [ rocket |-> [r EXCEPT !.ExplosionReason = <<StringOf(p, "reason")>>,
                                          !.Status = "exploded"],
                     err |-> NoError ]
       [] k = "RocketMissionChanged" ->
            IF ~IsString(p, "newMission")
              THEN [rocket |-> r, err |-> "invalid RocketMissionChanged message"]
              ELSE [ rocket |-> [r EXCEPT !.Mission = StringOf(p, "newMission")],
                     err |-> NoError ]
       [] OTHER -> [rocket |-> r, err |-> "unknown message type"]

\* applyMessage as it would be if RocketSpeedDecreased added like RocketSpeedIncreased
applyMessageDecreaseAdds(rocket, msg) ==
  LET r == [rocket EXCEPT !.LastMessageNumber = <<msg.Metadata.MessageNumber>>,
                          !.LastMessageTime = <<msg.Metadata.MessageTime>>]
      p == msg.Message
      k == msg.Metadata.MessageType
  IN CASE k = "RocketLaunched" ->
            [ rocket |-> [r EXCEPT !.Type = StringOf(p, "type"),
                                   !.Speed = FloatToInt(FloatOf(p, "launchSpeed")),
                                   !.Mission = StringOf(p, "mission"),
                                   !.Status = "active"],
              err |-> NoError ]
       [] k \in {"RocketSpeedIncreased", "RocketSpeedDecreased"} ->
            IF ~IsFloat(p, "by")
              THEN [rocket |-> r, err |-> "invalid " \o k \o " message"]
              ELSE [ rocket |-> [r EXCEPT !.Speed = @ + FloatToInt(FloatOf(p, "by"))],
                     err |-> NoError ]
       [] k = "RocketExploded" ->
            [ rocket |-> [r EXCEPT !.ExplosionReason = <<StringOf(p, "reason")>>,
                                   !.Status = "exploded"],
              err |-> NoError ]
       [] k = "RocketMissionChanged" ->
            IF ~IsString(p, "newMission")
              THEN [rocket |-> r, err |-> "invalid RocketMissionChanged message"]
              ELSE [ rocket |-> [r EXCEPT !.Mission = StringOf(p, "newMission")],
                     err |-> NoError ]
       [] OTHER -> [rocket |-> r, err |-> "unknown message type"]

(***************************************************************************)
(* applyMessage: the rocket is changed in place, so the cursor and time    *)
(* are those of msg even when the kind or payload is rejected.             *)
(***************************************************************************)
applyMessage(rocket, msg) ==
  LET r == [rocket EXCEPT !.LastMessageNumber = <<msg.Metadata.MessageNumber>>,
                          !.LastMessageTime = <<msg.Metadata.MessageTime>>]
      p == msg.Message
      k == msg.Metadata.MessageType
  IN CASE k = "RocketLaunched" ->
            [ rocket |-> [r EXCEPT !.Type = StringOf(p, "type"),
                                   !.Speed = FloatToInt(FloatOf(p, "launchSpeed")),
                                   !.Mission = StringOf(p, "mission"),
                                   !.Status = "active"],
              err |-> NoError ]
       [] k = "RocketSpeedIncreased" ->
            IF ~IsFloat(p, "by")
              THEN [rocket |-> r, err |-> "invalid RocketSpeedIncreased message"]
              ELSE [ rocket |-> [r EXCEPT !.Speed = @ + FloatToInt(FloatOf(p, "by"))],
                     err |-> NoError ]
       [] k = "RocketSpeedDecreased" ->
            IF ~IsFloat(p, "by")
              THEN [rocket |-> r, err |-> "invalid RocketSpeedDecreased message"]
              ELSE [ rocket |-> [r EXCEPT !.Speed = @ - FloatToInt(FloatOf(p, "by"))],
                     err |-> NoError ]
       [] k = "RocketExploded" ->
            [ rocket |-> [r EXCEPT !.ExplosionReason = <<StringOf(p, "reason")>>,
                                   !.Status = "exploded"],
              err |-> NoError ]
       [] k = "RocketMissionChanged" ->
            IF ~IsString(p, "newMission")
              THEN [rocket |-> r, err |-> "invalid RocketMissionChanged message"]
              ELSE [ rocket |-> [r EXCEPT !.Mission = StringOf(p, "newMission")],
                     err |-> NoError ]
       [] OTHER -> [rocket |-> r, err |-> "unknown message type"]

\* the loop of buildRocketState over messages[i..]
RECURSIVE buildFrom(_, _, _)
buildFrom(rocket, messages, i) ==
  IF i > Len(messages) THEN [rocket |-> <<rocket>>, err |-> NoError]
  ELSE LET a == applyMessage(rocket, messages[i])
       IN IF a.err # NoError THEN [rocket |-> <<>>, err |-> a.err]
          ELSE buildFrom(a.rocket, messages, i + 1)

buildRocketState(channelID, messages) ==
  buildFrom([Rocket(channelID) EXCEPT !.Status = "active"], messages, 1)

(***************************************************************************)
(* Repositories (repository.go) over two collections of documents.         *)
(***************************************************************************)
\* the document Store inserts
MessageDoc(message) ==
  [ metadata |-> [ channel |-> UUIDString(message.Metadata.Channel),
                   messageNumber |-> message.Metadata.MessageNumber,
                   messageTime |-> message.Metadata.MessageTime,
                   messageType |-> message.Metadata.MessageType ],
    message |-> message.Message ]

\* a raw message document converted to the domain model
MessageOf(raw) ==
  Message(UUIDParse(raw.metadata.channel), raw.metadata.messageNumber,
          raw.metadata.messageTime, raw.metadata.messageType, raw.message)

\* Store as it would be if it skipped a number the channel already has
StoreUnlessLogged(collection, message) ==
  IF \E i \in 1..Len(collection) :
       /\ collection[i].metadata.channel = UUIDString(message.Metadata.Channel)
       /\ collection[i].metadata.messageNumber = message.Metadata.MessageNumber
    THEN collection
    ELSE Append(collection, MessageDoc(message))

\* InsertOne of the document
Store(collection, message) == Append(collection, MessageDoc(message))

\* the results FindAfterNumber may return: the documents of the channel with
\* a number above `number`, in ascending number order (documents with equal
\* numbers in any order)
FindAfterNumber(collection, channel, number) ==
  LET match == { i \in 1..Len(collection) :
                   /\ collection[i].metadata.channel = UUIDString(channel)
                   /\ collection[i].metadata.messageNumber > number }
      n == Cardinality(match)
      orders == { f \in [1..n -> match] :
                    /\ \A a, b \in 1..n : a # b => f[a] # f[b]
                    /\ \A a, b \in 1..n : a < b =>
                         collection[f[a]].metadata.messageNumber
                           <= collection[f[b]].metadata.messageNumber }
  IN { [k \in 1..n |-> MessageOf(collection[f[k]])] : f \in orders }

\* the fields Upsert sets
RocketDoc(rocket) ==
  [ channel |-> UUIDString(rocket.Channel), type |-> rocket.Type, speed |-> rocket.Speed,
    mission |-> rocket.Mission, status |-> rocket.Status,
    explosionReason |-> rocket.ExplosionReason,
    lastMessageNumber |-> rocket.LastMessageNumber,
    lastMessageTime |-> rocket.LastMessageTime ]

\* a raw rocket document converted to the domain model
RocketOf(raw) ==
  [ Channel |-> UUIDParse(raw.channel), Type |-> raw.type, Speed |-> raw.speed,
    Mission |-> raw.mission, Status |-> raw.status,
    ExplosionReason |-> raw.explosionReason,
    LastMessageNumber |-> raw.lastMessageNumber,
    LastMessageTime |-> raw.lastMessageTime ]

\* positions of the documents the filter {"channel": channel.String()} matches
Matching(collection, channel) ==
  { i \in 1..Len(collection) : collection[i].channel = UUIDString(channel) }

\* FindOne: the first matching document, nil (with mongo.ErrNoDocuments) if none
\* FindByChannel as it would be if the conversion left Status at its zero value
FindByChannelLosingStatus(collection, channel) ==
  LET m == Matching(collection, channel)
  IN IF m = {} THEN <<>>
     ELSE <<[RocketOf(collection[CHOOSE i \in m : \A j \in m : i <= j])
               EXCEPT !.Status = ""]>>

FindByChannel(collection, channel) ==
  LET m == Matching(collection, channel)
  IN IF m = {} THEN <<>>
     ELSE <<RocketOf(collection[CHOOSE i \in m : \A j \in m : i <= j])>>

\* UpdateOne with upsert: the first matching document is updated, or one is inserted
\* Upsert as it would be with an empty filter: the first document is replaced
UpsertFirst(collection, rocket) ==
  IF collection = <<>> THEN Append(collection, RocketDoc(rocket))
  ELSE [collection EXCEPT ![1] = RocketDoc(rocket)]

\* Upsert as it would be if it always inserted a new document
UpsertInserting(collection, rocket) ==
  Append(collection, RocketDoc(rocket))

Upsert(collection, rocket) ==
  LET m == Matching(collection, rocket.Channel)
  IN IF m = {} THEN Append(collection, RocketDoc(rocket))
     ELSE [collection EXCEPT ![CHOOSE i \in m : \A j \in m : i <= j] = RocketDoc(rocket)]

\* foldFrom as it would be if the loop applied any later message, not only
\* the next number
RECURSIVE foldFromSkippingGaps(_, _, _)
foldFromSkippingGaps(rocket, found, i) ==
  IF i > Len(found) THEN [rocket |-> rocket, err |-> NoError]
  ELSE IF found[i].Metadata.MessageNumber > rocket.LastMessageNumber[1]
         THEN LET a == applyMessage(rocket, found[i])
              IN IF a.err # NoError THEN [rocket |-> a.rocket, err |-> ProcessMessageError]
                 ELSE foldFromSkippingGaps(a.rocket, found, i + 1)
         ELSE [rocket |-> rocket, err |-> NoError]

\* foldFrom as it would be if a row numbered like the cursor were applied too
RECURSIVE foldFromRepeating(_, _, _)
foldFromRepeating(rocket, found, i) ==
  IF i > Len(found) THEN [rocket |-> rocket, err |-> NoError]
  ELSE IF found[i].Metadata.MessageNumber \in
            { rocket.LastMessageNumber[1], rocket.LastMessageNumber[1] + 1 }
         THEN LET a == applyMessage(rocket, found[i])
              IN IF a.err # NoError
                   THEN [rocket |-> rocket, err |-> ProcessMessageError]
                   ELSE foldFromRepeating(a.rocket, found, i + 1)
         ELSE [rocket |-> rocket, err |-> NoError]

\* foldFrom as it would be if the error of applyMessage were ignored
RECURSIVE foldFromIgnoringErrors(_, _, _)
foldFromIgnoringErrors(rocket, found, i) ==
  IF i > Len(found) THEN [rocket |-> rocket, err |-> NoError]
  ELSE IF found[i].Metadata.MessageNumber = rocket.LastMessageNumber[1] + 1
         THEN foldFromIgnoringErrors(applyMessage(rocket, found[i]).rocket, found, i + 1)
         ELSE [rocket |-> rocket, err |-> NoError]

\* the loop of Process over the messages found after the cursor, from i on
RECURSIVE foldFrom(_, _, _)
foldFrom(rocket, found, i) ==
  IF i > Len(found) THEN [rocket |-> rocket, err |-> NoError]
  ELSE IF found[i].Metadata.MessageNumber = rocket.LastMessageNumber[1] + 1
         THEN LET a == applyMessage(rocket, found[i])
              IN IF a.err # NoError THEN [rocket |-> a.rocket, err |-> ProcessMessageError]
                 ELSE foldFrom(a.rocket, found, i + 1)
         ELSE [rocket |-> rocket, err |-> NoError]


(***************************************************************************)
(* State.  messages and rockets are the two collections; channelMutexes    *)
(* maps a channel to its mutex (a position in mutexes, <<>> when absent);   *)
(* mutexes[i] and mutexLock hold the caller that has the mutex locked, or   *)
(* Unlocked.  The other variables are the locals of each Ingest call.       *)
(***************************************************************************)
VARIABLES
  messages,        \* the "messages" collection, in insertion order
  rockets,         \* the "rockets" collection
  channelMutexes,  \* ResequencerMessageService.channelMutexes
  mutexes,         \* the sync.Mutex objects allocated by getChannelMutex
  mutexLock,       \* ResequencerMessageService.mutexLock
  pc,              \* where each caller is in Ingest / Process
  message,         \* the message argument of each call
  channelMutex,    \* Process's local channelMutex
  rocket,          \* Process's local rocket
  ret,             \* the error Ingest returned
  faults,          \* storage calls that have failed so far
  workload,        \* what the callers do: how many at once, which messages
  response         \* the last answer of ListRockets, with its parameters

vars ==
  << messages, rockets, channelMutexes, mutexes, mutexLock, pc, message,
     channelMutex, rocket, ret, faults, workload, response >>

Unlocked == 0

\* the two workloads: how many calls are made and how many run at once, and
\* the channels, numbers and contents producers send
Calls ==
  [ concurrent |-> MaxConcurrent, sequential |-> MaxCalls, retries |-> MaxCalls + 1,
    reruns |-> MaxCalls + 1, resends |-> MaxCalls + 2, waiting |-> MaxConcurrent ]
Callers ==
  [ concurrent |-> MaxConcurrent, sequential |-> 1, retries |-> 1, reruns |-> 1,
    resends |-> 1, waiting |-> MaxConcurrent ]
Sent ==
  [ concurrent |-> Channels, sequential |-> {1}, retries |-> {1}, reruns |-> {1},
    resends |-> {1}, waiting |-> Channels ]
\* the number that creates a projection and one that does not
FirstAndNext == {1, 2}
Numbers ==
  [ concurrent |-> 1..MaxNum, sequential |-> Nums, retries |-> 1..MaxNum,
    reruns |-> 1..MaxNum, resends |-> Nums, waiting |-> FirstAndNext ]
Contents ==
  [ concurrent |-> {Launched, SpeedIncreased, BadSpeedIncreased},
    sequential |-> {Launched, SpeedIncreased, Exploded, BadSpeedIncreased},
    retries    |-> {Launched, SpeedIncreased},
    reruns     |-> {Launched, SpeedIncreased},
    resends    |-> {SpeedIncreased},
    waiting    |-> {SpeedIncreased, BadSpeedIncreased} ]

NoMessage == Message(1, 0, 0, "", <<>>)

InitWith(w) ==
  /\ messages = <<>>
  /\ rockets = <<>>
  /\ channelMutexes = [c \in Channels |-> <<>>]
  /\ mutexes = <<>>
  /\ mutexLock = Unlocked
  /\ pc = [p \in Procs |-> "idle"]
  /\ message = [p \in Procs |-> NoMessage]
  /\ channelMutex = [p \in Procs |-> 0]
  /\ rocket = [p \in Procs |-> <<>>]
  /\ ret = [p \in Procs |-> NoError]
  /\ faults = 0
  /\ workload = w
  /\ response = <<>>

Init == InitWith("concurrent")
InitSequential == InitWith("sequential")
InitRetries == InitWith("retries")
InitReruns == InitWith("reruns")
InitResends == InitWith("resends")
InitWaiting == InitWith("waiting")

Running == { p \in Procs : pc[p] \notin {"idle", "done"} }

\* the MessageTime of the n-th message that caller p may send: the time of the
\* call, or under retries the time the producer gave to message n, so that a
\* message sent again is the same message
MessageTime(p, n) == IF workload \in {"retries", "reruns", "resends"} THEN n ELSE p

\* the contents sent with number n: a message numbered below 1 is never handed
\* to applyMessage, so one content stands for all of them (a rejected one, or
\* under resends the accepted one)
ContentsOf(n) ==
  IF n < 1 /\ workload # "resends" THEN {BadSpeedIncreased} ELSE Contents[workload]

\* the messages caller p may be handed: callers are taken in order and the
\* first one uses the first channel
\* content k as the producer of channel c sends it: each channel has its rocket
SentOn(c, k) == IF k = Launched /\ c # 1 THEN OtherLaunched ELSE k

Requests(p) ==
  UNION { { Message(c, n, MessageTime(p, n), SentOn(c, k).kind, SentOn(c, k).payload) :
              k \in ContentsOf(n) } :
            c \in (IF p = 1 THEN {1} ELSE Sent[workload]), n \in Numbers[workload] }

CanCall(p) ==
  /\ pc[p] = "idle"
  /\ p <= Calls[workload]
  /\ \A q \in Procs : q < p => pc[q] # "idle"
  /\ Cardinality(Running) < Callers[workload]

\* Return as it would be if the channel mutex were unlocked on success only
ReturnUnlocksOnSuccess(p, err) ==
  /\ pc' = [pc EXCEPT ![p] = "done"]
  /\ ret' = [ret EXCEPT ![p] = err]
  /\ mutexes' = IF err = NoError THEN [mutexes EXCEPT ![channelMutex[p]] = Unlocked]
                ELSE mutexes
  /\ channelMutex' = [channelMutex EXCEPT ![p] = 0]
  /\ rocket' = [rocket EXCEPT ![p] = <<>>]

\* return err from Process with the deferred channelMutex.Unlock(); the
\* locals of the call are gone
Return(p, err) ==
  /\ pc' = [pc EXCEPT ![p] = "done"]
  /\ ret' = [ret EXCEPT ![p] = err]
  /\ mutexes' = [mutexes EXCEPT ![channelMutex[p]] = Unlocked]
  /\ channelMutex' = [channelMutex EXCEPT ![p] = 0]
  /\ rocket' = [rocket EXCEPT ![p] = <<>>]

(***************************************************************************)
(* Ingest: Store, then Process.                                            *)
(***************************************************************************)
Ingest(p) ==
  /\ CanCall(p)
  /\ \E m \in Requests(p) :
       /\ message' = [message EXCEPT ![p] = m]
       /\ messages' = Store(messages, m)
  /\ pc' = [pc EXCEPT ![p] = "getChannelMutex"]
  /\ UNCHANGED << rockets, channelMutexes, mutexes, mutexLock, channelMutex, rocket,
                  ret, faults, workload, response >>

\* IngestStoreFails as it would be if Ingest went on to Process after a
\* failed Store
IngestStoreFailsGoesOn(p) ==
  /\ CanCall(p)
  /\ faults < MaxFaults
  /\ faults' = faults + 1
  /\ \E m \in Requests(p) : message' = [message EXCEPT ![p] = m]
  /\ pc' = [pc EXCEPT ![p] = "getChannelMutex"]
  /\ UNCHANGED << messages, rockets, channelMutexes, mutexes, mutexLock, channelMutex,
                  rocket, ret, workload, response >>

\* InsertOne fails, whatever the message: Ingest returns the error of Store
IngestStoreFails(p) ==
  /\ CanCall(p)
  /\ faults < MaxFaults
  /\ faults' = faults + 1
  /\ pc' = [pc EXCEPT ![p] = "done"]
  /\ ret' = [ret EXCEPT ![p] = StoreMessageError]
  /\ UNCHANGED << messages, rockets, channelMutexes, mutexes, mutexLock, message,
                  channelMutex, rocket, workload, response >>

\* getChannelMutex: m.mutexLock.Lock()
LockMap(p) ==
  /\ pc[p] = "getChannelMutex"
  /\ mutexLock = Unlocked
  /\ mutexLock' = p
  /\ pc' = [pc EXCEPT ![p] = "lookup"]
  /\ UNCHANGED << messages, rockets, channelMutexes, mutexes, message, channelMutex,
                  rocket, ret, faults, workload, response >>

\* getChannelMutex as it would be if it made a new mutex on every call
getChannelMutexAlwaysNew(p) ==
  /\ pc[p] = "lookup"
  /\ mutexes' = Append(mutexes, Unlocked)
  /\ channelMutexes' = [channelMutexes EXCEPT ![message[p].Metadata.Channel] = <<Len(mutexes) + 1>>]
  /\ channelMutex' = [channelMutex EXCEPT ![p] = Len(mutexes) + 1]
  /\ mutexLock' = Unlocked
  /\ pc' = [pc EXCEPT ![p] = "lock"]
  /\ UNCHANGED << messages, rockets, message, rocket, ret, faults, workload, response >>

\* getChannelMutex: insert if absent, return the entry, deferred Unlock
\* getChannelMutex as it would be if mutexLock were not released on return
getChannelMutexKeepsLock(p) ==
  /\ pc[p] = "lookup"
  /\ LET channel == message[p].Metadata.Channel
     IN IF channelMutexes[channel] = <<>>
          THEN /\ mutexes' = Append(mutexes, Unlocked)
               /\ channelMutexes' = [channelMutexes EXCEPT ![channel] = <<Len(mutexes) + 1>>]
               /\ channelMutex' = [channelMutex EXCEPT ![p] = Len(mutexes) + 1]
          ELSE /\ channelMutex' = [channelMutex EXCEPT ![p] = channelMutexes[channel][1]]
               /\ UNCHANGED << mutexes, channelMutexes >>
  /\ pc' = [pc EXCEPT ![p] = "lock"]
  /\ UNCHANGED << messages, rockets, mutexLock, message, rocket, ret, faults, workload, response >>

\* getChannelMutex as it would be if an entry were evicted once it is handed out
getChannelMutexEvicting(p) ==
  /\ pc[p] = "lookup"
  /\ LET channel == message[p].Metadata.Channel
     IN IF channelMutexes[channel] = <<>>
          THEN /\ mutexes' = Append(mutexes, Unlocked)
               /\ channelMutexes' = [channelMutexes EXCEPT ![channel] = <<Len(mutexes) + 1>>]
               /\ channelMutex' = [channelMutex EXCEPT ![p] = Len(mutexes) + 1]
          ELSE /\ channelMutex' = [channelMutex EXCEPT ![p] = channelMutexes[channel][1]]
               /\ channelMutexes' = [channelMutexes EXCEPT ![channel] = <<>>]
               /\ UNCHANGED mutexes
  /\ mutexLock' = Unlocked
  /\ pc' = [pc EXCEPT ![p] = "lock"]
  /\ UNCHANGED << messages, rockets, message, rocket, ret, faults, workload, response >>

getChannelMutex(p) ==
  /\ pc[p] = "lookup"
  /\ LET channel == message[p].Metadata.Channel
     IN IF channelMutexes[channel] = <<>>
          THEN /\ mutexes' = Append(mutexes, Unlocked)
               /\ channelMutexes' = [channelMutexes EXCEPT ![channel] = <<Len(mutexes) + 1>>]
               /\ channelMutex' = [channelMutex EXCEPT ![p] = Len(mutexes) + 1]
          ELSE /\ channelMutex' = [channelMutex EXCEPT ![p] = channelMutexes[channel][1]]
               /\ UNCHANGED << mutexes, channelMutexes >>
  /\ mutexLock' = Unlocked
  /\ pc' = [pc EXCEPT ![p] = "lock"]
  /\ UNCHANGED << messages, rockets, message, rocket, ret, faults, workload, response >>

\* LockChannel as it would be if Lock did not wait for the holder
LockChannelNoWait(p) ==
  /\ pc[p] = "lock"
  /\ mutexes' = [mutexes EXCEPT ![channelMutex[p]] = p]
  /\ pc' = [pc EXCEPT ![p] = "load"]
  /\ UNCHANGED << messages, rockets, channelMutexes, mutexLock, message, channelMutex,
                  rocket, ret, faults, workload, response >>

\* Process: channelMutex.Lock()
LockChannel(p) ==
  /\ pc[p] = "lock"
  /\ mutexes[channelMutex[p]] = Unlocked
  /\ mutexes' = [mutexes EXCEPT ![channelMutex[p]] = p]
  /\ pc' = [pc EXCEPT ![p] = "load"]
  /\ UNCHANGED << messages, rockets, channelMutexes, mutexLock, message, channelMutex,
                  rocket, ret, faults, workload, response >>

\* BuildFirst as it would be if the built rocket were dropped (rocket == nil)
BuildFirstDropped(p) ==
  /\ pc[p] = "load"
  /\ message[p].Metadata.MessageNumber = 1
  /\ LET b == buildRocketState(message[p].Metadata.Channel, <<message[p]>>)
     IN IF b.err # NoError
          THEN Return(p, ProcessMessageError)
          ELSE Return(p, NoError)
  /\ UNCHANGED << messages, rockets, channelMutexes, mutexLock, message, faults, workload, response >>

\* Process, MessageNumber == 1: the rocket is built from the message alone
\* BuildFirst as it would be if the error were only logged, as on the other branch
BuildFirstLogsOnly(p) ==
  /\ pc[p] = "load"
  /\ message[p].Metadata.MessageNumber = 1
  /\ LET b == buildRocketState(message[p].Metadata.Channel, <<message[p]>>)
     IN IF b.err # NoError
          THEN Return(p, NoError)
          ELSE /\ rocket' = [rocket EXCEPT ![p] = b.rocket]
               /\ pc' = [pc EXCEPT ![p] = "findAfter"]
               /\ UNCHANGED << ret, mutexes, channelMutex >>
  /\ UNCHANGED << messages, rockets, channelMutexes, mutexLock, message, faults, workload, response >>

\* BuildFirst as it would be if the fast path took every number up to 1
BuildFirstFromZero(p) ==
  /\ pc[p] = "load"
  /\ message[p].Metadata.MessageNumber <= 1
  /\ LET b == buildRocketState(message[p].Metadata.Channel, <<message[p]>>)
     IN IF b.err # NoError
          THEN Return(p, ProcessMessageError)
          ELSE /\ rocket' = [rocket EXCEPT ![p] = b.rocket]
               /\ pc' = [pc EXCEPT ![p] = "findAfter"]
               /\ UNCHANGED << ret, mutexes, channelMutex >>
  /\ UNCHANGED << messages, rockets, channelMutexes, mutexLock, message, faults, workload, response >>

BuildFirst(p) ==
  /\ pc[p] = "load"
  /\ message[p].Metadata.MessageNumber = 1
  /\ LET b == buildRocketState(message[p].Metadata.Channel, <<message[p]>>)
     IN IF b.err # NoError
          THEN Return(p, ProcessMessageError)
          ELSE /\ rocket' = [rocket EXCEPT ![p] = b.rocket]
               /\ pc' = [pc EXCEPT ![p] = "findAfter"]
               /\ UNCHANGED << ret, mutexes, channelMutex >>
  /\ UNCHANGED << messages, rockets, channelMutexes, mutexLock, message, faults, workload, response >>

\* FindRocket as it would be if a missing rocket were built from the message
FindRocketOrBuild(p) ==
  /\ pc[p] = "load"
  /\ message[p].Metadata.MessageNumber # 1
  /\ LET found == FindByChannel(rockets, message[p].Metadata.Channel)
         b == buildRocketState(message[p].Metadata.Channel, <<message[p]>>)
     IN IF found = <<>> /\ b.err # NoError
          THEN Return(p, ProcessMessageError)
          ELSE /\ rocket' = [rocket EXCEPT ![p] = IF found = <<>> THEN b.rocket ELSE found]
               /\ pc' = [pc EXCEPT ![p] = "findAfter"]
               /\ UNCHANGED << ret, mutexes, channelMutex >>
  /\ UNCHANGED << messages, rockets, channelMutexes, mutexLock, message, faults, workload, response >>

\* Process, any other number: the stored rocket; with none (rocket == nil)
\* Process returns nil
FindRocket(p) ==
  /\ pc[p] = "load"
  /\ message[p].Metadata.MessageNumber # 1
  /\ LET found == FindByChannel(rockets, message[p].Metadata.Channel)
     IN IF found = <<>>
          THEN Return(p, NoError)
          ELSE /\ rocket' = [rocket EXCEPT ![p] = found]
               /\ pc' = [pc EXCEPT ![p] = "findAfter"]
               /\ UNCHANGED << ret, mutexes, channelMutex >>
  /\ UNCHANGED << messages, rockets, channelMutexes, mutexLock, message, faults, workload, response >>

\* FindOne fails: the error is logged, rocket stays nil and Process returns nil
FindRocketFails(p) ==
  /\ pc[p] = "load"
  /\ message[p].Metadata.MessageNumber # 1
  /\ faults < MaxFaults
  /\ faults' = faults + 1
  /\ Return(p, NoError)
  /\ UNCHANGED << messages, rockets, channelMutexes, mutexLock, message, workload, response >>

\* Fold as it would be if the rocket were persisted before the error of the
\* loop is returned
FoldPersistsPartial(p) ==
  /\ pc[p] = "findAfter"
  /\ \E found \in FindAfterNumber(messages, message[p].Metadata.Channel,
                                   rocket[p][1].LastMessageNumber[1]) :
       LET f == foldFrom(rocket[p][1], found, 1)
       IN IF f.err # NoError
            THEN /\ rockets' = Upsert(rockets, f.rocket)
                 /\ Return(p, f.err)
            ELSE /\ rocket' = [rocket EXCEPT ![p] = <<f.rocket>>]
                 /\ pc' = [pc EXCEPT ![p] = "upsert"]
                 /\ UNCHANGED << ret, mutexes, channelMutex, rockets >>
  /\ UNCHANGED << messages, channelMutexes, mutexLock, message, faults, workload, response >>

\* Process: FindAfterNumber and the loop over its result
Fold(p) ==
  /\ pc[p] = "findAfter"
  /\ \E found \in FindAfterNumber(messages, message[p].Metadata.Channel,
                                   rocket[p][1].LastMessageNumber[1]) :
       LET f == foldFrom(rocket[p][1], found, 1)
       IN IF f.err # NoError
            THEN Return(p, f.err)
            ELSE /\ rocket' = [rocket EXCEPT ![p] = <<f.rocket>>]
                 /\ pc' = [pc EXCEPT ![p] = "upsert"]
                 /\ UNCHANGED << ret, mutexes, channelMutex >>
  /\ UNCHANGED << messages, rockets, channelMutexes, mutexLock, message, faults, workload, response >>

\* FindAfterNumber fails
FindAfterFails(p) ==
  /\ pc[p] = "findAfter"
  /\ faults < MaxFaults
  /\ faults' = faults + 1
  /\ Return(p, ProcessMessageError)
  /\ UNCHANGED << messages, rockets, channelMutexes, mutexLock, message, workload, response >>

\* Process: persist the rocket and return nil
\* Persist as it would be if the projection were stamped with the number and
\* time of the message of the call
PersistStampsCall(p) ==
  /\ pc[p] = "upsert"
  /\ rockets' = Upsert(rockets,
                       [rocket[p][1] EXCEPT
                          !.LastMessageNumber = <<message[p].Metadata.MessageNumber>>,
                          !.LastMessageTime = <<message[p].Metadata.MessageTime>>])
  /\ Return(p, NoError)
  /\ UNCHANGED << messages, channelMutexes, mutexLock, message, faults, workload, response >>

Persist(p) ==
  /\ pc[p] = "upsert"
  /\ rockets' = Upsert(rockets, rocket[p][1])
  /\ Return(p, NoError)
  /\ UNCHANGED << messages, channelMutexes, mutexLock, message, faults, workload, response >>

\* UpdateOne fails: nothing is written
PersistFails(p) ==
  /\ pc[p] = "upsert"
  /\ faults < MaxFaults
  /\ faults' = faults + 1
  /\ Return(p, ProcessMessageError)
  /\ UNCHANGED << messages, rockets, channelMutexes, mutexLock, message, workload, response >>

Next ==
  \E p \in Procs :
    \/ Ingest(p)
    \/ IngestStoreFails(p)
    \/ LockMap(p)
    \/ getChannelMutex(p)
    \/ LockChannel(p)
    \/ BuildFirst(p)
    \/ FindRocket(p)
    \/ FindRocketFails(p)
    \/ Fold(p)
    \/ FindAfterFails(p)
    \/ Persist(p)
    \/ PersistFails(p)

\* concurrent callers on two channels
Spec == Init /\ [][Next]_vars
\* one caller at a time on one channel, more numbers and kinds of message
SpecSequential == InitSequential /\ [][Next]_vars
SpecRetries == InitRetries /\ [][Next]_vars
\* a producer that sends again what it sent before, two calls more than the
\* numbers it has
SpecResends == InitResends /\ [][Next]_vars

\* Process called on its own, once the calls of Ingest have returned, for the
\* message of the last of them: nothing is stored in the log
Rerun(p) ==
  /\ workload = "reruns"
  /\ p = Calls[workload] + 1
  /\ pc[p] = "idle"
  /\ pc[p - 1] = "done"
  /\ message[p - 1] # NoMessage
  /\ message' = [message EXCEPT ![p] = message[p - 1]]
  /\ pc' = [pc EXCEPT ![p] = "getChannelMutex"]
  /\ UNCHANGED << messages, rockets, channelMutexes, mutexes, mutexLock, channelMutex,
                  rocket, ret, faults, workload, response >>

NextReruns == Next \/ \E p \in Procs : Rerun(p)

\* what a call that has stored its message does next: the scheduler runs every
\* goroutine that can run, and every storage call returns, with or without
\* an error
Runs(p) ==
  \/ LockMap(p)
  \/ getChannelMutex(p)
  \/ LockChannel(p)
  \/ BuildFirst(p)
  \/ FindRocket(p)
  \/ FindRocketFails(p)
  \/ Fold(p)
  \/ FindAfterFails(p)
  \/ Persist(p)
  \/ PersistFails(p)

\* concurrent callers on two channels under fair scheduling
SpecFair == InitWaiting /\ [][Next]_vars /\ \A p \in 1..MaxConcurrent : WF_vars(Runs(p))

SpecReruns == InitReruns /\ [][NextReruns]_vars

(***************************************************************************)
(* ListRockets on its own: the "rockets" collection holds the projections  *)
(* of up to MaxCalls channels, in any order, and the list is asked for     *)
(* with and without a sort key and an order.                               *)
(***************************************************************************)
\* the strings that are sorted, in the binary order MongoDB compares them by
StringOrder == <<"", "Falcon-9", "Saturn-V", "active", "exploded">>
Rank(str) == CHOOSE i \in DOMAIN StringOrder : StringOrder[i] = str

\* the value a document is sorted by; a field no document has compares equal
SortKey(doc, field) ==
  CASE field = "speed" -> doc.speed
    [] field = "type" -> Rank(doc.type)
    [] field = "status" -> Rank(doc.status)
    [] OTHER -> 0

Orders(n) == { f \in [1..n -> 1..n] : \A i, j \in 1..n : f[i] = f[j] => i = j }

\* All with sortOrder forced to 1
AllAscending(collection, sortBy, order) ==
  { [i \in 1..Len(collection) |-> RocketOf(collection[f[i]])] :
      f \in { g \in Orders(Len(collection)) :
                sortBy # <<>> =>
                  \A i, j \in 1..Len(collection) :
                    i < j => SortKey(collection[g[i]], sortBy[1])
                               <= SortKey(collection[g[j]], sortBy[1]) } }

\* the lists All may return: Find with the sort option, documents with equal
\* keys (and all documents, without a sort) in an order the store chooses
All(collection, sortBy, order) ==
  LET sortOrder == IF order # <<>> /\ order[1] = "desc" THEN -1 ELSE 1
  IN { [i \in 1..Len(collection) |-> RocketOf(collection[f[i]])] :
         f \in { g \in Orders(Len(collection)) :
                   sortBy # <<>> =>
                     \A i, j \in 1..Len(collection) :
                       i < j => sortOrder * SortKey(collection[g[i]], sortBy[1])
                                  <= sortOrder * SortKey(collection[g[j]], sortBy[1]) } }

\* the projections a channel may have in the store
ListedDocs(c) ==
  { RocketDoc([Rocket(c) EXCEPT !.Type = d.type, !.Speed = d.speed, !.Status = d.status,
                               !.LastMessageNumber = <<1>>, !.LastMessageTime = <<1>>]) :
      d \in { [type |-> "Falcon-9", speed |-> 500, status |-> "active"],
              [type |-> "Falcon-9", speed |-> 1000, status |-> "exploded"],
              [type |-> "Saturn-V", speed |-> 300, status |-> "active"] } }

ListedChannels == 1..MaxCalls

InitList ==
  /\ messages = <<>>
  /\ \E S \in SUBSET ListedChannels : \E f \in [1..Cardinality(S) -> S] :
       \E docs \in [S -> UNION { ListedDocs(c) : c \in S }] :
         /\ \A i, j \in 1..Cardinality(S) : f[i] = f[j] => i = j
         /\ \A c \in S : docs[c] \in ListedDocs(c)
         /\ rockets = [i \in 1..Cardinality(S) |-> docs[f[i]]]
  /\ channelMutexes = [c \in Channels |-> <<>>]
  /\ mutexes = <<>>
  /\ mutexLock = Unlocked
  /\ pc = [p \in Procs |-> "idle"]
  /\ message = [p \in Procs |-> NoMessage]
  /\ channelMutex = [p \in Procs |-> 0]
  /\ rocket = [p \in Procs |-> <<>>]
  /\ ret = [p \in Procs |-> NoError]
  /\ faults = 0
  /\ workload = "list"
  /\ response = <<>>

\* GET /rockets: the parameters are handed to All as they are
ListRockets ==
  /\ workload = "list"
  /\ response = <<>>
  /\ \E sortBy \in {<<>>, <<"speed">>, <<"type">>} :
       \E order \in {<<>>, <<"asc">>, <<"desc">>, <<"DESC">>} :
         \E found \in All(rockets, sortBy, order) :
           response' = <<[sortBy |-> sortBy, order |-> order, rockets |-> found]>>
  /\ UNCHANGED << messages, rockets, channelMutexes, mutexes, mutexLock, pc, message,
                  channelMutex, rocket, ret, faults, workload >>

NextList == ListRockets

SpecList == InitList /\ [][NextList]_vars

(***************************************************************************)
(* applyMessage on its own: a projection drawn from Projections is handed  *)
(* from slot to slot, each slot applying one message to it.  Slot p keeps  *)
(* the projection it received in rocket[p], the message it applied in      *)
(* message[p] and the error in ret[p].                                     *)
(***************************************************************************)
\* values of "by" as float64, in units of 1/Scale: -3.5, 0, 0.5, 500, 3000
Bys == { -(3 * Scale) - 1, 0, 1, 500 * Scale, 3000 * Scale }

SpeedChanges ==
  { [kind |-> k, payload |-> [by |-> Num(x)]] :
      k \in {"RocketSpeedIncreased", "RocketSpeedDecreased"}, x \in Bys }

ApplyContents ==
  SpeedChanges \cup
    { Launched, Exploded, MissionChanged, BadSpeedIncreased, Landed, BadLaunched,
      BadExploded, NoReasonExploded, BadMissionChanged, NoMissionChanged,
      NoBySpeedDecreased }

Projections ==
  { [Rocket(1) EXCEPT !.Speed = v, !.Status = st.status, !.ExplosionReason = st.reason,
                      !.LastMessageNumber = <<1>>, !.LastMessageTime = <<0>>] :
      v \in {-1, 0, 500},
      st \in { [status |-> "active", reason |-> <<>>],
               [status |-> "exploded", reason |-> <<"PRESSURE_VESSEL_FAILURE">>] } }

InitApply ==
  /\ messages = <<>>
  /\ rockets = <<>>
  /\ channelMutexes = [c \in Channels |-> <<>>]
  /\ mutexes = <<>>
  /\ mutexLock = Unlocked
  /\ pc = [p \in Procs |-> IF p = 1 THEN "apply" ELSE "idle"]
  /\ message = [p \in Procs |-> NoMessage]
  /\ channelMutex = [p \in Procs |-> 0]
  /\ \E r \in Projections : rocket = [p \in Procs |-> IF p = 1 THEN <<r>> ELSE <<>>]
  /\ ret = [p \in Procs |-> NoError]
  /\ faults = 0
  /\ workload = "apply"
  /\ response = <<>>

\* slot p applies the next message of the channel to its copy of the
\* projection and hands the result on; after an error nothing more is applied
Apply(p) ==
  /\ pc[p] = "apply"
  /\ p <= MaxCalls
  /\ \E k \in ApplyContents :
       LET msg == Message(1, rocket[p][1].LastMessageNumber[1] + 1, p, k.kind, k.payload)
           a == applyMessage(rocket[p][1], msg)
       IN /\ message' = [message EXCEPT ![p] = msg]
          /\ ret' = [ret EXCEPT ![p] = a.err]
          /\ rocket' = [rocket EXCEPT ![p + 1] = <<a.rocket>>]
          /\ pc' = [pc EXCEPT ![p] = "done",
                              ![p + 1] = IF a.err = NoError THEN "apply" ELSE "idle"]
  /\ UNCHANGED << messages, rockets, channelMutexes, mutexes, mutexLock, channelMutex,
                  faults, workload, response >>

NextApply == \E p \in Procs : Apply(p)

SpecApply == InitApply /\ [][NextApply]_vars


(***************************************************************************)
(* Vocabulary of the properties.                                           *)
(***************************************************************************)
ChannelOf(p) == message[p].Metadata.Channel
NumberOf(p) == message[p].Metadata.MessageNumber

\* positions of the channel's rows in the log, and their numbers
Rows(c) == { i \in 1..Len(messages) : messages[i].metadata.channel = UUIDString(c) }
NumbersOf(c) == { messages[i].metadata.messageNumber : i \in Rows(c) }
UniqueNumbers(c) ==
  \A i, j \in Rows(c) :
    i # j => messages[i].metadata.messageNumber # messages[j].metadata.messageNumber

\* the logged message of channel c numbered n (one row per number)
Logged(c, n) ==
  MessageOf(messages[CHOOSE i \in Rows(c) : messages[i].metadata.messageNumber = n])

\* the transition function accepts the message
Accepted(m) == applyMessage(Rocket(m.Metadata.Channel), m).err = NoError

\* the fresh projection, and messages 1..n of the log applied to it in order
Fresh(c) == [Rocket(c) EXCEPT !.Status = "active"]
RECURSIVE PrefixFold(_, _)
PrefixFold(c, n) ==
  IF n = 0 THEN Fresh(c) ELSE applyMessage(PrefixFold(c, n - 1), Logged(c, n)).rocket

\* the stored projections of a channel
Stored(c) == { RocketOf(rockets[i]) : i \in Matching(rockets, c) }

\* the caller is between reading the projection and returning
InProcess(p) == pc[p] \in {"load", "findAfter", "upsert"}

\* the largest n such that 1..n are all logged for the channel
RECURSIVE Contiguous(_, _)
Contiguous(c, n) == IF n + 1 \in NumbersOf(c) THEN Contiguous(c, n + 1) ELSE n

\* the largest n such that 1..n are all logged and accepted
RECURSIVE AcceptedPrefix(_, _)
AcceptedPrefix(c, n) ==
  IF n + 1 \in NumbersOf(c) /\ Accepted(Logged(c, n + 1)) THEN AcceptedPrefix(c, n + 1) ELSE n

(***************************************************************************)
(* C1  Gapless prefix: with one row per number, every stored projection    *)
(* with cursor n is the fresh projection with the logged messages 1..n     *)
(* applied in ascending order; every number 1..n is logged.                *)
(***************************************************************************)
C1_GaplessPrefix ==
  \A c \in Channels :
    UniqueNumbers(c) =>
      \A r \in Stored(c) :
        /\ r.LastMessageNumber # <<>>
        /\ r.LastMessageNumber[1] >= 1
        /\ \A k \in 1..r.LastMessageNumber[1] : k \in NumbersOf(c) /\ Accepted(Logged(c, k))
        /\ r = PrefixFold(c, r.LastMessageNumber[1])

\* a projection that has caught up with message 2, logged before message 1
C1_Witness ==
  \E c \in Channels :
    /\ UniqueNumbers(c)
    /\ NumbersOf(c) = {1, 2}
    /\ \E i, j \in Rows(c) :
         i < j /\ messages[i].metadata.messageNumber = 2
               /\ messages[j].metadata.messageNumber = 1
    /\ \E r \in Stored(c) : r.LastMessageNumber = <<2>>


(***************************************************************************)
(* C2  Order independence: once messages 1..N of a channel (accepted by    *)
(* the transition function or not) have all been ingested one by one, in   *)
(* whatever order, the stored projection is the one their arrival in       *)
(* ascending order leaves: messages 1..k applied, k + 1 being the first     *)
(* rejected message (no projection when message 1 is rejected).             *)
(***************************************************************************)
AllIngested(c) ==
  /\ Running = {}
  /\ faults = 0
  /\ UniqueNumbers(c)
  /\ NumbersOf(c) # {}
  /\ NumbersOf(c) = 1..Cardinality(NumbersOf(c))

InOrderResult(c) ==
  IF AcceptedPrefix(c, 0) = 0 THEN {} ELSE {PrefixFold(c, AcceptedPrefix(c, 0))}

C2_OrderIndependence ==
  \A c \in Channels : AllIngested(c) => Stored(c) = InOrderResult(c)

\* arrival in ascending order does leave InOrderResult
InOrderArrival(c) ==
  \A i, j \in Rows(c) :
    i < j => messages[i].metadata.messageNumber < messages[j].metadata.messageNumber

C2_InOrder ==
  \A c \in Channels : AllIngested(c) /\ InOrderArrival(c) => Stored(c) = InOrderResult(c)

\* when every message is accepted the order does not matter
C2_AcceptedOnly ==
  \A c \in Channels :
    AllIngested(c) /\ (\A n \in NumbersOf(c) : Accepted(Logged(c, n)))
      => Stored(c) = InOrderResult(c)

(***************************************************************************)
(* C3  No gap skip: when the stored cursor is n and n + 1 is not logged,   *)
(* ingesting a number above n + 1 leaves the stored projection as it was;  *)
(* once an accepted message n + 1 is ingested (one row per number, no      *)
(* storage failure), the stored projection has message n + 1 and the       *)
(* accepted logged successors n + 2, ... applied in ascending order.       *)
(***************************************************************************)
\* messages cursor + 1, cursor + 2, ... of the log applied to r while they
\* are logged and accepted
RECURSIVE CatchUp(_)
CatchUp(r) ==
  LET next == r.LastMessageNumber[1] + 1
  IN IF next \in NumbersOf(r.Channel) /\ Accepted(Logged(r.Channel, next))
       THEN CatchUp(applyMessage(r, Logged(r.Channel, next)).rocket)
       ELSE r

Returns(p) == pc[p] # "done" /\ pc'[p] = "done"

C3_GapLeavesProjection ==
  [][ \A p \in Procs : \A r \in Stored(ChannelOf(p)) :
        ( /\ Returns(p)
          /\ r.LastMessageNumber[1] + 1 \notin NumbersOf(ChannelOf(p))
          /\ NumberOf(p) > r.LastMessageNumber[1] + 1 )
        => rockets' = rockets ]_vars

C3_GapFilled ==
  [][ \A p \in Procs : \A r \in Stored(ChannelOf(p)) :
        ( /\ Returns(p)
          /\ faults' = 0
          /\ UniqueNumbers(ChannelOf(p))
          /\ NumberOf(p) = r.LastMessageNumber[1] + 1
          /\ Accepted(message[p]) )
        => FindByChannel(rockets', ChannelOf(p)) = <<CatchUp(r)>> ]_vars

C3_NoGapSkip == C3_GapLeavesProjection /\ C3_GapFilled


(***************************************************************************)
(* C4  Catch-up under concurrency: when accepted messages 1..N of a        *)
(* channel were each handed to one Ingest call, the calls ran concurrently *)
(* and no storage call failed, then once all of them have returned the     *)
(* stored projection has cursor N.                                         *)
(***************************************************************************)
C4_CatchUp ==
  \A c \in Channels :
    AllIngested(c) /\ (\A n \in NumbersOf(c) : Accepted(Logged(c, n)))
      => \E r \in Stored(c) : r.LastMessageNumber = <<Cardinality(NumbersOf(c))>>

\* two calls of one channel have returned, message 1 logged last
C4_Witness ==
  \E c \in Channels :
    /\ AllIngested(c)
    /\ NumbersOf(c) = {1, 2}
    /\ \A n \in NumbersOf(c) : Accepted(Logged(c, n))
    /\ messages[2].metadata.messageNumber = 1
    /\ messages[2].metadata.channel = UUIDString(c)
    /\ \E r \in Stored(c) : r.LastMessageNumber = <<2>>

(***************************************************************************)
(* C5  Per-channel mutual exclusion: no two Process calls of one channel   *)
(* are both between reading the projection and returning.                  *)
(***************************************************************************)
C5_MutualExclusion ==
  \A p, q \in Procs :
    p # q /\ InProcess(p) /\ InProcess(q) => ChannelOf(p) # ChannelOf(q)

\* a call waits for the lock of its channel while another call holds it and
\* is about to write the projection
C5_Witness ==
  \E p, q \in Procs :
    /\ p # q
    /\ ChannelOf(p) = ChannelOf(q)
    /\ pc[p] = "upsert"
    /\ pc[q] = "lock"
    /\ channelMutex[p] = channelMutex[q]
    /\ mutexes[channelMutex[q]] = p


(***************************************************************************)
(* C6  Early arrival is benign: an Ingest of a message whose number is not *)
(* 1, for a channel with no stored projection, returns success with the    *)
(* message logged and the projection store unchanged.                      *)
(***************************************************************************)
IsLogged(m) == \E i \in 1..Len(messages) : messages[i] = MessageDoc(m)

C6_EarlyArrival ==
  [][ \A p \in Procs :
        ( /\ pc[p] = "load"
          /\ pc'[p] # "load"
          /\ NumberOf(p) # 1
          /\ Stored(ChannelOf(p)) = {} )
        => /\ pc'[p] = "done"
           /\ ret'[p] = NoError
           /\ rockets' = rockets
           /\ IsLogged(message[p])' ]_vars

\* message 3 of a channel has been ingested with success, it is logged and
\* the channel has no projection
C6_Witness ==
  \E p \in Procs :
    /\ pc[p] = "done"
    /\ ret[p] = NoError
    /\ NumberOf(p) = 3
    /\ IsLogged(message[p])
    /\ NumbersOf(ChannelOf(p)) = {3}
    /\ Stored(ChannelOf(p)) = {}

(***************************************************************************)
(* C7  As claimed: after a successful Ingest for a channel, whatever the   *)
(* number of its message, a projection of the channel is stored.           *)
(***************************************************************************)
C7_CreatedByAnyMessage ==
  \A p \in Procs :
    pc[p] = "done" /\ ret[p] = NoError => Stored(ChannelOf(p)) # {}

(***************************************************************************)
(* C7  As amended: a projection is created by the Ingest of a message      *)
(* numbered 1.  After a successful Ingest of a message numbered 1 the      *)
(* channel has a stored projection, and a channel has a stored projection  *)
(* only if a message numbered 1 is in its log.                             *)
(***************************************************************************)
C7_CreatedByFirstMessage ==
  /\ \A p \in Procs :
       pc[p] = "done" /\ ret[p] = NoError /\ NumberOf(p) = 1 => Stored(ChannelOf(p)) # {}
  /\ \A c \in Channels : Stored(c) # {} => 1 \in NumbersOf(c)

\* message 1 arrives after message 2 and creates the projection
C7_Witness ==
  \E p, q \in Procs :
    /\ q < p
    /\ ChannelOf(p) = ChannelOf(q)
    /\ pc[p] = "done" /\ ret[p] = NoError /\ NumberOf(p) = 1
    /\ pc[q] = "done" /\ ret[q] = NoError /\ NumberOf(q) = 2
    /\ Stored(ChannelOf(p)) # {}

(***************************************************************************)
(* C8  Unconditional, append-only logging: an Ingest whose append succeeds *)
(* adds exactly one row, its message, whatever the number and whether or   *)
(* not Process fails afterwards; no step removes or changes a row.         *)
(***************************************************************************)
Appended(p) == pc[p] = "idle" /\ pc'[p] = "getChannelMutex"

C8_AppendOnly ==
  [][ /\ \A p \in Procs : Appended(p) => messages' = Append(messages, MessageDoc(message'[p]))
      /\ (\A p \in Procs : ~Appended(p)) => messages' = messages
      /\ \A p \in Procs : Returns(p) /\ pc[p] # "idle" => IsLogged(message[p])' ]_vars

\* a second row with the number of a logged row, a row numbered 0, and a
\* call that returned an error from Process with its row in the log
C8_Witness ==
  /\ \E i, j \in 1..Len(messages) :
       /\ i < j
       /\ messages[i].metadata.channel = messages[j].metadata.channel
       /\ messages[i].metadata.messageNumber = messages[j].metadata.messageNumber
  /\ \E i \in 1..Len(messages) : messages[i].metadata.messageNumber = 0
  /\ \E p \in Procs :
       pc[p] = "done" /\ ret[p] = ProcessMessageError /\ IsLogged(message[p])

(***************************************************************************)
(* C9  A failed append ends the call: Ingest returns the error, the log,   *)
(* the projections and the locks are unchanged, and the call takes no      *)
(* further step.                                                           *)
(***************************************************************************)
C9_StoreFailure ==
  [][ \A p \in Procs :
        /\ ( pc[p] = "idle" /\ pc'[p] # "idle" /\ messages' = messages )
           => /\ pc'[p] = "done"
              /\ ret'[p] = StoreMessageError
              /\ UNCHANGED << rockets, channelMutexes, mutexes, mutexLock, channelMutex >>
        /\ pc[p] = "done" => pc'[p] = "done" /\ ret'[p] = ret[p] ]_vars

\* a call has returned the error of Store and nothing is logged, stored or locked
C9_Witness ==
  \E p \in Procs :
    /\ pc[p] = "done"
    /\ ret[p] = StoreMessageError
    /\ messages = <<>>
    /\ rockets = <<>>
    /\ mutexes = <<>>

(***************************************************************************)
(* C10  All-or-nothing reconcile: the projections of a channel change only *)
(* in the last step of a Process call of that channel that holds the       *)
(* channel's lock and returns success; a call that returns an error        *)
(* leaves the projection store as it was.                                  *)
(***************************************************************************)
C10_AllOrNothing ==
  [][ /\ \A c \in Channels :
           Stored(c)' # Stored(c) =>
             \E p \in Procs :
               /\ ChannelOf(p) = c
               /\ pc[p] = "upsert"
               /\ mutexes[channelMutex[p]] = p
               /\ pc'[p] = "done"
               /\ ret'[p] = NoError
      /\ \A p \in Procs : Returns(p) /\ ret'[p] # NoError => rockets' = rockets ]_vars

\* message 2 was folded in memory before the rejected message 3 made the
\* call fail; the stored cursor is still 1
C10_Witness ==
  \E p \in Procs :
    /\ pc[p] = "done"
    /\ ret[p] = ProcessMessageError
    /\ NumberOf(p) = 2
    /\ Accepted(message[p])
    /\ UniqueNumbers(ChannelOf(p))
    /\ NumbersOf(ChannelOf(p)) = {1, 2, 3}
    /\ \E r \in Stored(ChannelOf(p)) : r.LastMessageNumber = <<1>>


(***************************************************************************)
(* C11  Storage read failures propagate: a call whose fetch of the         *)
(* channel's projection fails with a storage error returns an error.       *)
(***************************************************************************)
C11_ReadFailurePropagates ==
  [][ \A p \in Procs :
        pc[p] = "load" /\ Returns(p) /\ faults' = faults + 1 => ret'[p] # NoError ]_vars

(***************************************************************************)
(* C12  As claimed: when a logged message numbered k of a channel is       *)
(* rejected by the transition function, the stored cursor of the channel   *)
(* is below k, and the message of every call that was logged is in the log.*)
(***************************************************************************)
WasLogged(p) == pc[p] # "idle" /\ ~(pc[p] = "done" /\ ret[p] = StoreMessageError)

C12_CursorBelowRejected ==
  /\ \A c \in Channels : \A i \in Rows(c) : \A r \in Stored(c) :
       ~Accepted(MessageOf(messages[i]))
         => r.LastMessageNumber[1] < messages[i].metadata.messageNumber
  /\ \A p \in Procs : WasLogged(p) => IsLogged(message[p])

(***************************************************************************)
(* C12  As amended: when a logged message numbered k >= 1 is rejected and  *)
(* is the only row of its channel with that number, the stored cursor of   *)
(* the channel is below k; the message of every logged call stays logged.  *)
(***************************************************************************)
OnlyRow(c, i) ==
  \A j \in Rows(c) :
    j # i => messages[j].metadata.messageNumber # messages[i].metadata.messageNumber

C12_RejectedNeverApplied ==
  /\ \A c \in Channels : \A i \in Rows(c) : \A r \in Stored(c) :
       ( /\ ~Accepted(MessageOf(messages[i]))
         /\ messages[i].metadata.messageNumber >= 1
         /\ OnlyRow(c, i) )
         => r.LastMessageNumber[1] < messages[i].metadata.messageNumber
  /\ \A p \in Procs : WasLogged(p) => IsLogged(message[p])

\* the rejected message 2 is logged, a later call of the channel has
\* returned, and the stored cursor is 1
C12_Witness ==
  \E c \in Channels : \E i, j \in Rows(c) :
    /\ i < j
    /\ messages[i].metadata.messageNumber = 2
    /\ ~Accepted(MessageOf(messages[i]))
    /\ OnlyRow(c, i)
    /\ messages[j].metadata.messageNumber = 3
    /\ Running = {}
    /\ \E r \in Stored(c) : r.LastMessageNumber = <<1>>

(***************************************************************************)
(* C13  The fold stalls at the bad message: when messages 1..k-1 of a      *)
(* channel are accepted and message k is rejected, then whatever the       *)
(* arrival order, once all k have been ingested the stored cursor is k-1.  *)
(***************************************************************************)
C13_StallsAtBadMessage ==
  \A c \in Channels :
    LET k == Cardinality(NumbersOf(c))
    IN ( /\ AllIngested(c)
         /\ k >= 2
         /\ \A n \in 1..(k - 1) : Accepted(Logged(c, n))
         /\ ~Accepted(Logged(c, k)) )
       => \E r \in Stored(c) : r.LastMessageNumber = <<k - 1>>

(***************************************************************************)
(* C14  Rejections are surfaced: every Ingest call whose own message is    *)
(* rejected by the transition function returns an error.                   *)
(***************************************************************************)
C14_RejectionSurfaced ==
  \A p \in Procs :
    pc[p] = "done" /\ WasLogged(p) /\ ~Accepted(message[p]) => ret[p] # NoError

(***************************************************************************)
(* C15  As claimed: once the stored status of a channel is "exploded", it  *)
(* is "exploded" in every later state.                                     *)
(***************************************************************************)
IsExploded(c) == \E r \in Stored(c) : r.Status = "exploded"

C15_StatusMonotonic ==
  [][ \A c \in Channels : IsExploded(c) => IsExploded(c)' ]_vars

(***************************************************************************)
(* C15  As amended: a stored status "exploded" is left only by a call that *)
(* ingests a message numbered 1 or that applies a logged RocketLaunched    *)
(* message numbered above the cursor; every other step keeps it.           *)
(***************************************************************************)
LaunchedBetween(c, from, to) ==
  \E i \in Rows(c) :
    /\ messages[i].metadata.messageType = "RocketLaunched"
    /\ messages[i].metadata.messageNumber > from
    /\ messages[i].metadata.messageNumber <= to

C15_ExplodedUntilLaunched ==
  [][ \A c \in Channels :
        IsExploded(c) /\ ~IsExploded(c)'
          => \E p \in Procs :
               /\ Returns(p)
               /\ ChannelOf(p) = c
               /\ \/ NumberOf(p) = 1
                  \/ \E r \in Stored(c) : \E q \in (Stored(c))' :
                       LaunchedBetween(c, r.LastMessageNumber[1],
                                       q.LastMessageNumber[1]) ]_vars

\* messages 1, 2 (RocketExploded) and 3 (not RocketLaunched) arrived in this
\* order, each was applied by its own call, and the status is still exploded
C15_Witness ==
  /\ Len(messages) = 3
  /\ \A n \in 1..3 : messages[n].metadata.messageNumber = n
  /\ messages[2].metadata.messageType = "RocketExploded"
  /\ messages[3].metadata.messageType # "RocketLaunched"
  /\ \E r \in Stored(1) : r.Status = "exploded" /\ r.LastMessageNumber = <<3>>

(***************************************************************************)
(* C16  The explosion reason is consistent with the status: a stored       *)
(* projection has an explosionReason only if its status is "exploded".     *)
(***************************************************************************)
C16_ReasonOnlyIfExploded ==
  \A c \in Channels : \A r \in Stored(c) :
    r.ExplosionReason # <<>> => r.Status = "exploded"

(***************************************************************************)
(* C17  Duplicate log rows are tolerated: ingesting again a message that   *)
(* is already logged and applied (same channel, number and content) adds a *)
(* row to the log and leaves the stored projection unchanged, and once     *)
(* every call has returned a channel whose log holds such duplicate rows   *)
(* has the projection it would have with one row per sequence number.      *)
(***************************************************************************)
\* rows of channel c with the same number are copies of one message
DuplicatesAreCopies(c) ==
  \A i, j \in Rows(c) :
    messages[i].metadata.messageNumber = messages[j].metadata.messageNumber
      => messages[i] = messages[j]

\* call p sends a message that is logged already and lies at or below the
\* cursor, on a channel where each number has had one content
IsRetry(p) ==
  /\ IsLogged(message'[p])
  /\ \E c \in Channels :
       /\ c = ChannelOf(p)'
       /\ DuplicatesAreCopies(c)'
       /\ \E r \in Stored(c) : NumberOf(p)' <= r.LastMessageNumber[1]

C17_SameFinal ==
  \A c \in Channels :
    LET n == Cardinality(NumbersOf(c))
    IN ( /\ Running = {}
         /\ faults = 0
         /\ DuplicatesAreCopies(c)
         /\ n >= 1
         /\ NumbersOf(c) = 1..n )
       => Stored(c) = {PrefixFold(c, n)}

C17_DuplicatesTolerated ==
  [][ /\ C17_SameFinal'
      /\ \A p \in Procs :
           pc[p] = "idle" /\ pc'[p] # "idle" /\ IsRetry(p) /\ faults' = 0
             => /\ Len(messages') = Len(messages) + 1
                /\ rockets' = rockets
      /\ \A p \in Procs :
           ( /\ Returns(p)
             /\ faults' = 0
             /\ DuplicatesAreCopies(ChannelOf(p))
             /\ \E i \in 1..(Len(messages) - 1) : messages[i] = MessageDoc(message[p])
             /\ \E r \in Stored(ChannelOf(p)) : NumberOf(p) <= r.LastMessageNumber[1]
             /\ \A r \in Stored(ChannelOf(p)) :
                  Contiguous(ChannelOf(p), r.LastMessageNumber[1]) = r.LastMessageNumber[1] )
             => rockets' = rockets ]_vars

(***************************************************************************)
(* C18  No double apply: even when the log holds several rows with the     *)
(* same number, every stored projection is the fold of one accepted row    *)
(* for each number 1, 2, ..., cursor, in this order, and of nothing else.  *)
(***************************************************************************)
\* the projections obtained by applying one row of each number 1..n in order
RECURSIVE Folds(_, _)
Folds(c, n) ==
  IF n <= 0 THEN {Fresh(c)}
  ELSE { applyMessage(r, MessageOf(messages[i])).rocket :
           r \in Folds(c, n - 1),
           i \in { j \in Rows(c) :
                     /\ messages[j].metadata.messageNumber = n
                     /\ Accepted(MessageOf(messages[j])) } }

C18_NoDoubleApply ==
  \A c \in Channels : \A r \in Stored(c) :
    /\ r.LastMessageNumber[1] >= 1
    /\ r \in Folds(c, r.LastMessageNumber[1])

\* two rows numbered 2 were logged before message 1 arrived, and the call of
\* message 1 has stored a projection with cursor 2
C18_Witness ==
  /\ Len(messages) = 3
  /\ messages[1].metadata.messageNumber = 2
  /\ messages[2].metadata.messageNumber = 2
  /\ messages[3].metadata.messageNumber = 1
  /\ \E r \in Stored(1) : r.LastMessageNumber = <<2>>

(***************************************************************************)
(* C19  Per-call catch-up: when a call returns success and its channel has *)
(* a stored projection, the stored cursor is the largest n such that every *)
(* number from the previous cursor + 1 to n is logged, and the projection  *)
(* is the previous one with exactly those messages applied in ascending    *)
(* order (one message when there is no backlog, the whole run otherwise).  *)
(***************************************************************************)
RECURSIVE ApplyRun(_, _, _, _)
ApplyRun(c, r, from, to) ==
  IF from >= to THEN r
  ELSE ApplyRun(c, applyMessage(r, Logged(c, from + 1)).rocket, from + 1, to)

CaughtUp(c, before, after) ==
  LET prev == IF before = {} THEN 0 ELSE (CHOOSE r \in before : TRUE).LastMessageNumber[1]
      start == IF before = {} THEN Fresh(c) ELSE CHOOSE r \in before : TRUE
      n == Contiguous(c, prev)
  IN after = {ApplyRun(c, start, prev, n)}

C19_PerCallCatchUp ==
  [][ \A p \in Procs : \A c \in Channels :
        ( /\ Returns(p)
          /\ c = ChannelOf(p)
          /\ ret'[p] = NoError
          /\ faults' = 0
          /\ DuplicatesAreCopies(c)
          /\ (Stored(c))' # {} )
          => CaughtUp(c, Stored(c), (Stored(c))') ]_vars

\* the same property on channels with one row per number
C19_WithoutDuplicates ==
  [][ \A p \in Procs : \A c \in Channels :
        ( /\ Returns(p)
          /\ c = ChannelOf(p)
          /\ ret'[p] = NoError
          /\ faults' = 0
          /\ UniqueNumbers(c)
          /\ (Stored(c))' # {} )
          => CaughtUp(c, Stored(c), (Stored(c))') ]_vars

(***************************************************************************)
(* C20  Additivity of the speed deltas: on every projection, applying      *)
(* RocketSpeedIncreased{by: X} and then RocketSpeedDecreased{by: X} with   *)
(* the same integer X gives back the speed the projection had.             *)
(***************************************************************************)
\* slots p and p + 1 applied an increase and then a decrease by the same integer
IncreasedThenDecreased(p) ==
  /\ p + 2 \in Procs
  /\ rocket[p + 2] # <<>>
  /\ message[p].Metadata.MessageType = "RocketSpeedIncreased"
  /\ message[p + 1].Metadata.MessageType = "RocketSpeedDecreased"
  /\ message[p].Message = message[p + 1].Message
  /\ IsFloat(message[p].Message, "by")
  /\ FloatOf(message[p].Message, "by") % Scale = 0

C20_Additivity ==
  \A p \in Procs :
    IncreasedThenDecreased(p)
      => /\ ret[p] = NoError
         /\ ret[p + 1] = NoError
         /\ rocket[p + 2][1].Speed = rocket[p][1].Speed

\* speed 500 was increased and then decreased by 3000
C20_Witness ==
  \E p \in Procs :
    /\ IncreasedThenDecreased(p)
    /\ FloatOf(message[p].Message, "by") = 3000 * Scale
    /\ rocket[p][1].Speed = 500
    /\ rocket[p + 1][1].Speed = 3500

(***************************************************************************)
(* C21  Each kind changes only its own fields besides the cursor and the   *)
(* time: RocketExploded sets status and explosionReason, MissionChanged    *)
(* sets mission, SpeedIncreased and SpeedDecreased change speed,           *)
(* RocketLaunched sets type, mission, speed and status; every other field  *)
(* is the one the projection had.                                          *)
(***************************************************************************)
\* slot p has applied its message with success
Applied(p) == workload = "apply" /\ pc[p] = "done" /\ ret[p] = NoError

\* the fields of the projection that slot p's message changed
ChangedBy(p) ==
  { f \in {"Channel", "Type", "Speed", "Mission", "Status", "ExplosionReason"} :
      rocket[p + 1][1][f] # rocket[p][1][f] }

OwnFields(kind) ==
  CASE kind = "RocketLaunched" -> {"Type", "Mission", "Speed", "Status"}
    [] kind = "RocketExploded" -> {"Status", "ExplosionReason"}
    [] kind = "RocketMissionChanged" -> {"Mission"}
    [] OTHER -> {"Speed"}

C21_OwnFieldsOnly ==
  \A p \in Procs :
    Applied(p) =>
      LET m == message[p]
          k == m.Metadata.MessageType
          after == rocket[p + 1][1]
      IN /\ ChangedBy(p) \subseteq OwnFields(k)
         /\ k = "RocketExploded" =>
              /\ after.Status = "exploded"
              /\ after.ExplosionReason = <<StringOf(m.Message, "reason")>>
         /\ k = "RocketMissionChanged" => after.Mission = StringOf(m.Message, "newMission")
         /\ k = "RocketLaunched" =>
              /\ after.Type = StringOf(m.Message, "type")
              /\ after.Mission = StringOf(m.Message, "mission")
              /\ after.Speed = FloatToInt(FloatOf(m.Message, "launchSpeed"))
              /\ after.Status = "active"

\* a projection with speed 500 and a mission was exploded, and one that was
\* exploded got a new mission
C21_Witness ==
  \E p \in Procs :
    /\ p + 2 \in Procs
    /\ Applied(p) /\ Applied(p + 1)
    /\ message[p].Metadata.MessageType = "RocketExploded"
    /\ message[p + 1].Metadata.MessageType = "RocketMissionChanged"
    /\ rocket[p][1].Speed = 500
    /\ rocket[p + 2][1].Speed = 500
    /\ rocket[p + 2][1].Status = "exploded"

(***************************************************************************)
(* C22  applyMessage fails exactly for an unknown kind and for a           *)
(* SpeedIncreased, SpeedDecreased or MissionChanged message whose required *)
(* field is missing or of the wrong type; RocketLaunched and               *)
(* RocketExploded never fail and take the empty string or speed 0 for a    *)
(* missing or mistyped field.                                              *)
(***************************************************************************)
MustFail(m) ==
  LET k == m.Metadata.MessageType
  IN \/ k \notin { "RocketLaunched", "RocketSpeedIncreased", "RocketSpeedDecreased",
                   "RocketExploded", "RocketMissionChanged" }
     \/ k \in {"RocketSpeedIncreased", "RocketSpeedDecreased"} /\ ~IsFloat(m.Message, "by")
     \/ k = "RocketMissionChanged" /\ ~IsString(m.Message, "newMission")

C22_FailuresExactly ==
  \A p \in Procs :
    workload = "apply" /\ pc[p] = "done" =>
      LET m == message[p]
          k == m.Metadata.MessageType
          after == rocket[p + 1][1]
      IN /\ ret[p] # NoError <=> MustFail(m)
         /\ k = "RocketLaunched" /\ ~IsString(m.Message, "type") => after.Type = ""
         /\ k = "RocketLaunched" /\ ~IsString(m.Message, "mission") => after.Mission = ""
         /\ k = "RocketLaunched" /\ ~IsFloat(m.Message, "launchSpeed") => after.Speed = 0
         /\ k = "RocketExploded" /\ ~IsString(m.Message, "reason")
              => after.ExplosionReason = <<"">>

\* a RocketLaunched and a RocketExploded with mistyped fields were applied
\* with success, and the message after them was rejected
C22_Witness ==
  \E p \in Procs :
    /\ p + 2 \in Procs
    /\ Applied(p) /\ Applied(p + 1)
    /\ message[p].Message = BadLaunched.payload
    /\ message[p].Metadata.MessageType = "RocketLaunched"
    /\ message[p + 1].Metadata.MessageType = "RocketExploded"
    /\ ~IsString(message[p + 1].Message, "reason")
    /\ pc[p + 2] = "done" /\ ret[p + 2] # NoError

(***************************************************************************)
(* C23  A failed fast path persists nothing: a call whose message is       *)
(* numbered 1 and is rejected by the transition function returns an error, *)
(* leaves the projection store as it was (no projection created, an        *)
(* existing one unchanged), and its message stays in the log.              *)
(***************************************************************************)
RejectedFirst(p) ==
  /\ WasLogged(p)
  /\ NumberOf(p) = 1
  /\ ~Accepted(message[p])

C23_FailedFastPath ==
  [][ \A p \in Procs :
        RejectedFirst(p)' /\ pc'[p] # pc[p] =>
          /\ rockets' = rockets
          /\ (IsLogged(message[p]))'
          /\ Returns(p) => ret'[p] # NoError ]_vars

\* a rejected message numbered 1 was ingested on a channel that had a
\* projection; the call returned an error and the projection is there
C23_Witness ==
  \E p \in Procs : \E q \in Procs :
    /\ q < p
    /\ pc[p] = "done" /\ pc[q] = "done"
    /\ RejectedFirst(p)
    /\ ChannelOf(q) = ChannelOf(p)
    /\ NumberOf(q) = 1 /\ Accepted(message[q]) /\ ret[q] = NoError
    /\ ret[p] = ProcessMessageError
    /\ Stored(ChannelOf(p)) # {}

(***************************************************************************)
(* C24  Idempotent catch-up: when Process is run a second time for the     *)
(* message of the call that has just returned, with nothing logged in      *)
(* between, the second run leaves the stored projection as the first run   *)
(* left it.                                                                *)
(***************************************************************************)
IsRerun(p) == workload = "reruns" /\ p = Calls[workload] + 1

\* the first run returned success and left the message at or below the cursor
FirstRunApplied(p) ==
  /\ ret[p - 1] = NoError
  /\ \E r \in Stored(ChannelOf(p)) : NumberOf(p) <= r.LastMessageNumber[1]

C24_IdempotentCatchUp ==
  [][ \A p \in Procs :
        ( /\ IsRerun(p)
          /\ pc'[p] # pc[p]
          /\ pc[p] # "idle"
          /\ FirstRunApplied(p)
          /\ DuplicatesAreCopies(ChannelOf(p)) )
          => rockets' = rockets ]_vars

\* the same property on channels with one row per number
C24_WithoutDuplicates ==
  [][ \A p \in Procs :
        ( /\ IsRerun(p)
          /\ pc'[p] # pc[p]
          /\ pc[p] # "idle"
          /\ FirstRunApplied(p)
          /\ UniqueNumbers(ChannelOf(p)) )
          => rockets' = rockets ]_vars

(***************************************************************************)
(* C25  Channels do not block each other: mutexLock is held only by a call *)
(* that is looking up or inserting its channel's mutex, never by one that  *)
(* waits for a channel mutex or runs Process; and a call that cannot take  *)
(* its next step waits either for such a lookup or for a call of its own   *)
(* channel, never for a call of another channel.                           *)
(***************************************************************************)
\* the next step of call p, storage faults aside
Step(p) ==
  \/ LockMap(p)
  \/ getChannelMutex(p)
  \/ LockChannel(p)
  \/ BuildFirst(p)
  \/ FindRocket(p)
  \/ Fold(p)
  \/ Persist(p)

C25_ChannelsIndependent ==
  /\ mutexLock # Unlocked => pc[mutexLock] = "lookup"
  /\ \A q \in Running :
       \/ ENABLED Step(q)
       \/ /\ pc[q] = "getChannelMutex"
          /\ mutexLock # Unlocked
          /\ ENABLED Step(mutexLock)
       \/ /\ pc[q] = "lock"
          /\ \E p \in Running :
               /\ mutexes[channelMutex[q]] = p
               /\ ChannelOf(p) = ChannelOf(q)
               /\ ENABLED Step(p)

\* a call on channel 2 that started after a call on channel 1 has returned
\* while the call on channel 1 is in Process, holding its channel's mutex
C25_Witness ==
  \E p, q \in Procs :
    /\ p < q
    /\ ChannelOf(p) = 1 /\ ChannelOf(q) = 2
    /\ pc[p] = "findAfter"
    /\ pc[q] = "done" /\ ret[q] = NoError
    /\ Stored(2) # {}

(***************************************************************************)
(* C26  Cross-channel isolation: a step of a call for one channel changes  *)
(* neither the log rows nor the stored projection of any other channel,    *)
(* under every interleaving; and when a rocket was launched on each of two *)
(* channels, each channel has one projection with its own type and mission.*)
(***************************************************************************)
RowsIn(c) == SelectSeq(messages, LAMBDA d : d.metadata.channel = UUIDString(c))

\* message 1 of channel c is a RocketLaunched and its call returned success
LaunchedOn(c) ==
  /\ UniqueNumbers(c)
  /\ \E p \in Procs :
       /\ pc[p] = "done" /\ ret[p] = NoError
       /\ ChannelOf(p) = c /\ NumberOf(p) = 1
       /\ message[p].Metadata.MessageType = "RocketLaunched"

OwnRocket(c) ==
  /\ Cardinality(Matching(rockets, c)) = 1
  /\ \A r \in Stored(c) :
       /\ r.Channel = c
       /\ r.Type = StringOf(SentOn(c, Launched).payload, "type")
       /\ r.Mission = StringOf(SentOn(c, Launched).payload, "mission")

C26_Isolation ==
  [][ /\ \A p \in Procs : \A c \in Channels :
           pc'[p] # pc[p] /\ c # ChannelOf(p)'
             => RowsIn(c)' = RowsIn(c) /\ (Stored(c))' = Stored(c)
      /\ \A c \in Channels : LaunchedOn(c)' => OwnRocket(c)' ]_vars

\* a rocket was launched on each channel, by calls that ran at the same time
C26_Witness ==
  /\ LaunchedOn(1) /\ LaunchedOn(2)
  /\ Len(rockets) = 2
  /\ rockets[1].channel = UUIDString(2)
  /\ messages[1].metadata.channel = UUIDString(1)
  /\ \E r \in Stored(1) : r.Type = "Falcon-9" /\ r.Mission = "ARTEMIS"
  /\ \E r \in Stored(2) : r.Type = "Saturn-V" /\ r.Mission = "APOLLO"

(***************************************************************************)
(* C27  List ordering: the list holds every stored projection exactly      *)
(* once; with a sort key it is ordered by that field, descending when the  *)
(* order argument is exactly "desc" and ascending when it is absent or     *)
(* anything else.                                                          *)
(***************************************************************************)
\* the value of the sorted field in a listed projection
FieldOf(r, field) ==
  CASE field = "speed" -> r.Speed
    [] field = "type" -> Rank(r.Type)
    [] field = "status" -> Rank(r.Status)
    [] OTHER -> 0

C27_ListOrdering ==
  response # <<>> =>
    LET listed == response[1].rockets
        sortBy == response[1].sortBy
        order == response[1].order
    IN /\ Len(listed) = Len(rockets)
       /\ \A i \in 1..Len(rockets) :
            Cardinality({ j \in 1..Len(listed) : listed[j] = RocketOf(rockets[i]) }) = 1
       /\ sortBy # <<>> =>
            \A i, j \in 1..Len(listed) :
              i < j =>
                IF order = <<"desc">>
                  THEN FieldOf(listed[i], sortBy[1]) >= FieldOf(listed[j], sortBy[1])
                  ELSE FieldOf(listed[i], sortBy[1]) <= FieldOf(listed[j], sortBy[1])

\* projections stored with speeds 500, 1000, 300 were listed by speed in
\* descending order
C27_Witness ==
  /\ Len(rockets) = 3
  /\ rockets[1].speed = 500 /\ rockets[2].speed = 1000 /\ rockets[3].speed = 300
  /\ response # <<>>
  /\ response[1].sortBy = <<"speed">>
  /\ response[1].order = <<"desc">>
  /\ response[1].rockets[1].Speed = 1000
  /\ response[1].rockets[2].Speed = 500
  /\ response[1].rockets[3].Speed = 300

(***************************************************************************)
(* C28  The fast path ignores the stored projection: when a call for a     *)
(* message numbered 1 returns success, the stored projection of the        *)
(* channel is the fresh projection with that message applied and then the  *)
(* contiguous run of logged messages 2, 3, ... folded on top, whatever     *)
(* was stored before the call.                                             *)
(***************************************************************************)
\* from number 2 on, rows of channel c with one number are copies of one message
CopiesAboveOne(c) ==
  \A i, j \in Rows(c) :
    /\ messages[i].metadata.messageNumber >= 2
    /\ messages[i].metadata.messageNumber = messages[j].metadata.messageNumber
    => messages[i] = messages[j]

Rebuilt(c, m) == ApplyRun(c, applyMessage(Fresh(c), m).rocket, 1, Contiguous(c, 1))

C28_FastPathRebuilds ==
  [][ \A p \in Procs : \A c \in Channels :
        ( /\ Returns(p)
          /\ c = ChannelOf(p)
          /\ NumberOf(p) = 1
          /\ ret'[p] = NoError
          /\ CopiesAboveOne(c) )
          => (Stored(c))' = {Rebuilt(c, message[p])} ]_vars

\* the same property on channels where each number from 2 on has one row
C28_WithoutDuplicates ==
  [][ \A p \in Procs : \A c \in Channels :
        ( /\ Returns(p)
          /\ c = ChannelOf(p)
          /\ NumberOf(p) = 1
          /\ ret'[p] = NoError
          /\ \A i, j \in Rows(c) :
               /\ messages[i].metadata.messageNumber >= 2
               /\ messages[i].metadata.messageNumber = messages[j].metadata.messageNumber
               => i = j )
          => (Stored(c))' = {Rebuilt(c, message[p])} ]_vars

(***************************************************************************)
(* C29  The stored lastMessageNumber and lastMessageTime are the number    *)
(* and the time of a logged, accepted message, the highest-numbered one    *)
(* that was applied, and not those of the message that arrived last.       *)
(***************************************************************************)
C29_StampOfHighestApplied ==
  \A c \in Channels : \A r \in Stored(c) :
    /\ r.LastMessageNumber # <<>>
    /\ r.LastMessageTime # <<>>
    /\ \E i \in Rows(c) :
         /\ messages[i].metadata.messageNumber = r.LastMessageNumber[1]
         /\ messages[i].metadata.messageTime = r.LastMessageTime[1]
         /\ Accepted(MessageOf(messages[i]))
    \* every number up to the stored one was folded before it: it is the
    \* highest applied, whichever call arrived last
    /\ \A n \in 1..r.LastMessageNumber[1] :
         \E i \in Rows(c) :
           /\ messages[i].metadata.messageNumber = n
           /\ Accepted(MessageOf(messages[i]))

\* messages 3, 1, 2 arrived in this order: the stored number and time are
\* those of message 3, which arrived first
C29_Witness ==
  /\ Len(messages) = 3
  /\ messages[1].metadata.messageNumber = 3
  /\ messages[2].metadata.messageNumber = 1
  /\ messages[3].metadata.messageNumber = 2
  /\ \E r \in Stored(1) :
       /\ r.LastMessageNumber = <<3>>
       /\ r.LastMessageTime = <<messages[1].metadata.messageTime>>
       /\ r.LastMessageTime # <<messages[3].metadata.messageTime>>

(***************************************************************************)
(* C30  In every reachable state the rockets collection holds at most one  *)
(* projection per channel, and a step never removes the projection of a    *)
(* channel that has one.                                                   *)
(***************************************************************************)
C30_OnePerChannelForever ==
  /\ [](\A c \in Channels : Cardinality(Matching(rockets, c)) <= 1)
  /\ [][ \A c \in Channels :
           Matching(rockets, c) # {} => (Matching(rockets, c))' # {} ]_vars

\* three accepted messages were ingested one after the other without a
\* storage failure: the projection was inserted once and replaced twice
C30_Witness ==
  /\ faults = 0
  /\ Len(messages) = 3
  /\ \A i \in 1..3 :
       /\ messages[i].metadata.messageNumber = i
       /\ pc[i] = "done"
       /\ ret[i] = NoError
  /\ Len(rockets) = 1
  /\ \E r \in Stored(1) : r.LastMessageNumber = <<3>>

(***************************************************************************)
(* C31  The lock of a channel is created by the first Process of the       *)
(* channel and is never removed or replaced: every call that has fetched   *)
(* the lock of its channel holds the one the map holds, and two channels   *)
(* never share a lock.                                                     *)
(***************************************************************************)
\* caller p has returned from getChannelMutex and is still inside Process
Fetched(p) == pc[p] \in {"lock", "load", "findAfter", "upsert"}

C31_OneLockPerChannel ==
  /\ [](/\ \A p \in Procs :
            Fetched(p) => channelMutexes[ChannelOf(p)] = <<channelMutex[p]>>
        /\ \A c \in Channels :
            channelMutexes[c] = <<>> =>
              \A p \in Procs :
                WasLogged(p) /\ ChannelOf(p) = c => pc[p] \in {"getChannelMutex", "lookup"}
        /\ \A c, d \in Channels :
            c # d /\ channelMutexes[c] # <<>> => channelMutexes[c] # channelMutexes[d])
  /\ [][ \A c \in Channels :
           channelMutexes[c] # <<>> => channelMutexes'[c] = channelMutexes[c] ]_vars

\* the second caller of a channel was handed the lock made for the first one,
\* which has returned, while the other channel has no lock
C31_Witness ==
  \E p, q \in Procs :
    /\ p # q
    /\ ChannelOf(p) = ChannelOf(q)
    /\ pc[p] = "done"
    /\ ret[p] = NoError
    /\ WasLogged(p)
    /\ pc[q] = "load"
    /\ channelMutexes[ChannelOf(q)] = <<channelMutex[q]>>
    /\ \E d \in Channels : channelMutexes[d] = <<>>

(***************************************************************************)
(* C32  For every channel the lastMessageNumber of the stored projection   *)
(* never decreases from one state to the next, whatever is ingested again  *)
(* (here: in runs where no storage call has failed).                       *)
(***************************************************************************)
C32_CursorMonotonic ==
  [][ \A c \in Channels : \A r \in Stored(c) : \A s \in (Stored(c))' :
        faults' = 0 => r.LastMessageNumber[1] <= s.LastMessageNumber[1] ]_vars

\* the same property for steps into a log where each number from 2 on has
\* one row
C32_WithoutDuplicates ==
  [][ \A c \in Channels : \A r \in Stored(c) : \A s \in (Stored(c))' :
        ( \A i, j \in Rows(c) :
            /\ messages[i].metadata.messageNumber >= 2
            /\ messages[i].metadata.messageNumber = messages[j].metadata.messageNumber
            => i = j )
        => r.LastMessageNumber[1] <= s.LastMessageNumber[1] ]_vars

(***************************************************************************)
(* C33  Every projection in the store, and every projection Process holds  *)
(* when it reads the cursor, has a lastMessageNumber that is set and at    *)
(* least 1; a logged message numbered 0 or below is never applied (applying *)
(* it would stamp its number on the projection).                           *)
(***************************************************************************)
HasCursor(r) == r.LastMessageNumber # <<>> /\ r.LastMessageNumber[1] >= 1

C33_CursorPresent ==
  /\ \A c \in Channels : \A r \in Stored(c) : HasCursor(r)
  /\ \A p \in Procs :
       pc[p] \in {"findAfter", "upsert"} => rocket[p] # <<>> /\ HasCursor(rocket[p][1])
  /\ \A c \in Channels : \A r \in Stored(c) : \A i \in Rows(c) :
       messages[i].metadata.messageNumber < 1 =>
         /\ r.LastMessageNumber # <<messages[i].metadata.messageNumber>>
         /\ r.Speed = PrefixFold(c, r.LastMessageNumber[1]).Speed \/ ~UniqueNumbers(c)

\* an accepted message numbered 0 was logged before the projection of its
\* channel was created, and a call carrying another one found the projection
C33_Witness ==
  /\ Len(messages) >= 3
  /\ messages[1].metadata.messageNumber = 0
  /\ Accepted(MessageOf(messages[1]))
  /\ \E r \in Stored(1) : r.LastMessageNumber = <<2>>
  /\ \E p \in Procs :
       /\ NumberOf(p) = 0
       /\ pc[p] = "upsert"
       /\ rocket[p] # <<>>

(***************************************************************************)
(* C34  A caller that holds mutexLock holds no channel mutex and is not    *)
(* waiting; a call that has returned, on any path, holds no mutex; and     *)
(* under fair scheduling every Ingest call that has started returns.       *)
(***************************************************************************)
Holds(p) == { i \in 1..Len(mutexes) : mutexes[i] = p }

C34_LocksReleased ==
  /\ [](/\ \A p \in Procs :
            /\ mutexLock = p => Holds(p) = {} /\ pc[p] = "lookup"
            /\ pc[p] \in {"idle", "done", "getChannelMutex", "lookup", "lock"} => Holds(p) = {}
            /\ InProcess(p) => Holds(p) = {channelMutex[p]})
  /\ \A p \in 1..MaxConcurrent : (pc[p] # "idle") ~> (pc[p] = "done")

\* a call has taken the mutex of its channel after another call of the
\* channel, which failed, released it, and a third party holds nothing
C34_Witness ==
  \E p, q \in Procs :
    /\ p # q
    /\ ChannelOf(p) = ChannelOf(q)
    /\ pc[p] = "done"
    /\ ret[p] = ProcessMessageError
    /\ InProcess(q)
    /\ Holds(q) = {channelMutex[q]}
    /\ Holds(p) = {}
    /\ mutexLock = Unlocked

(***************************************************************************)
(* C35  With no storage failure, an Ingest call whose own message the      *)
(* transition function accepts returns success.                            *)
(***************************************************************************)
C35_ErrorsAttributable ==
  \A p \in Procs :
    ( /\ pc[p] = "done"
      /\ WasLogged(p)
      /\ faults = 0
      /\ Accepted(message[p]) )
    => ret[p] = NoError

\* what holds instead: with no storage failure a call fails only when the log
\* of its channel holds a message the transition function rejects
C35_FailsOnRejectedRow ==
  \A p \in Procs :
    ( /\ pc[p] = "done"
      /\ WasLogged(p)
      /\ faults = 0
      /\ ret[p] # NoError )
    => \E i \in Rows(ChannelOf(p)) : ~Accepted(MessageOf(messages[i]))

====
